---- MODULE Spec2Model ----
(***************************************************************************)
(* util_mmd: decoders for the PMX model format (mmd::pmx::load) and the    *)
(* VMD motion format (mmd::vmd::load).                                     *)
(*                                                                         *)
(* A byte source is a sequence of bytes (0..255) with a cursor `pos` that  *)
(* counts the bytes consumed so far.  Floats are kept as the four bytes    *)
(* stored on disk; 8/16/32-bit integers keep their width and signedness.   *)
(***************************************************************************)
EXTENDS Integers, Sequences, FiniteSets, TLC

VARIABLES
    file,       \* the byte source's content
    pos,        \* the byte source's cursor (bytes consumed)
    pc,         \* position of the running call (decoding stage)
    hdr,        \* locals of the call that outlive a stage (header fields, version)
    mdl,        \* the record under construction (mdlData / animData)
    remaining,  \* entries of the current count-prefixed list still to decode; -1 before the count is read
    ret,        \* what the call handed to its caller
    input,      \* how the environment built the byte source (what was stored, section by section)
    sched       \* the calls around the running one: a load that waits for its turn, results of earlier calls

vars == <<file, pos, pc, hdr, mdl, remaining, ret, input, sched>>

----------------------------------------------------------------------------
(* Bounds of the model *)

\* longest vertex / face / texture / material / bone / morph list of an input
MaxItems == 2
\* most records in one motion track of an input
MaxRec == 3

----------------------------------------------------------------------------
(* Small helpers *)

Byte == 0..255

Rev(s) == [i \in 1..Len(s) |-> s[Len(s) + 1 - i]]

RECURSIVE Flatten(_)
Flatten(ss) == IF ss = <<>> THEN <<>> ELSE Head(ss) \o Flatten(Tail(ss))

Zeros(n) == [i \in 1..n |-> 0]

\* two's complement readings of stored bytes, as a C++ conversion to int32_t gives them
S8(b) == IF b >= 128 THEN b - 256 ELSE b
U16(b0, b1) == b0 + 256 * b1
S16(b0, b1) == b0 + 256 * S8(b1)
S32(b0, b1, b2, b3) == b0 + 256 * b1 + 65536 * b2 + 16777216 * S8(b3)

----------------------------------------------------------------------------
(* Primitive reader: ufile::IFile.  Read<T>() consumes sizeof(T) bytes;    *)
(* Read(buf, n) consumes n bytes.  A read of more bytes than remain fails. *)

CanRead(f, p, n) == n >= 0 /\ p + n <= Len(f)

Bytes(f, p, n) == SubSeq(f, p + 1, p + n)

Ok(p, v) == [ok |-> TRUE, err |-> "", pos |-> p, val |-> v]
Fail(e, p) == [ok |-> FALSE, err |-> e, pos |-> p, val |-> <<>>]

ReadU8(f, p) == IF CanRead(f, p, 1) THEN Ok(p + 1, f[p + 1]) ELSE Fail("TruncatedInput", p)
ReadS8(f, p) == IF CanRead(f, p, 1) THEN Ok(p + 1, S8(f[p + 1])) ELSE Fail("TruncatedInput", p)
ReadU16(f, p) == IF CanRead(f, p, 2) THEN Ok(p + 2, U16(f[p + 1], f[p + 2])) ELSE Fail("TruncatedInput", p)
ReadS16(f, p) == IF CanRead(f, p, 2) THEN Ok(p + 2, S16(f[p + 1], f[p + 2])) ELSE Fail("TruncatedInput", p)
ReadS32(f, p) ==
    IF CanRead(f, p, 4) THEN Ok(p + 4, S32(f[p + 1], f[p + 2], f[p + 3], f[p + 4]))
    ELSE Fail("TruncatedInput", p)
\* n raw bytes: floats, float arrays, packed structs
ReadRaw(f, p, n) == IF CanRead(f, p, n) THEN Ok(p + n, Bytes(f, p, n)) ELSE Fail("TruncatedInput", p)

----------------------------------------------------------------------------
(* Variable-width index reader *)

\* enum class IndexType : char { Byte = 1, Short = 2, Int = 4 }
IndexByte == 1
IndexShort == 2
IndexInt == 4

\* a reader that takes the narrow widths as unsigned whatever T0, T1
read_index_mut_zero_extend(f, p, type, signedNarrow) ==
    CASE type = IndexByte -> ReadU8(f, p)
      [] type = IndexShort -> ReadU16(f, p)
      [] type = IndexInt -> ReadS32(f, p)
      [] OTHER -> Fail("InvalidFormat", p)

\* read_index<T0,T1,T2>: signedNarrow = T0,T1 are int8_t,int16_t (else uint8_t,uint16_t); T2 is int32_t in both uses
read_index_T(f, p, type, signedNarrow) ==
    CASE type = IndexByte -> (IF signedNarrow THEN ReadS8(f, p) ELSE ReadU8(f, p))
      [] type = IndexShort -> (IF signedNarrow THEN ReadS16(f, p) ELSE ReadU16(f, p))
      [] type = IndexInt -> ReadS32(f, p)
      [] OTHER -> Fail("InvalidFormat", p)

read_index(f, p, type) == read_index_T(f, p, type, TRUE)
read_vertex_index(f, p, type) == read_index_T(f, p, type, FALSE)

----------------------------------------------------------------------------
(* Text decoder *)

\* enum class TextEncoding : char { UTF16 = 0, UTF8 }
UTF16 == 0
UTF8 == 1

\* utf8::append: the UTF-8 bytes of one code point
Utf8Append(cp) ==
    IF cp < 128 THEN <<cp>>
    ELSE IF cp < 2048 THEN <<192 + (cp \div 64), 128 + (cp % 64)>>
    ELSE IF cp < 65536 THEN <<224 + (cp \div 4096), 128 + ((cp \div 64) % 64), 128 + (cp % 64)>>
    ELSE <<240 + (cp \div 262144), 128 + ((cp \div 4096) % 64), 128 + ((cp \div 64) % 64), 128 + (cp % 64)>>

IsLeadSurrogate(u) == u >= 55296 /\ u <= 56319
IsTrailSurrogate(u) == u >= 56320 /\ u <= 57343

\* utf8::utf16to8 on a sequence of 16-bit code units; an unpaired surrogate is an error
Transcoded(bytes, rest) == [ok |-> rest.ok, val |-> bytes \o rest.val]

RECURSIVE utf16to8(_)
utf16to8(units) ==
    IF units = <<>> THEN [ok |-> TRUE, val |-> <<>>]
    ELSE IF IsLeadSurrogate(Head(units))
         THEN IF Len(units) >= 2 /\ IsTrailSurrogate(units[2])
              THEN Transcoded(Utf8Append(65536 + (Head(units) - 55296) * 1024 + (units[2] - 56320)),
                              utf16to8(Tail(Tail(units))))
              ELSE [ok |-> FALSE, val |-> <<>>]
    ELSE IF IsTrailSurrogate(Head(units)) THEN [ok |-> FALSE, val |-> <<>>]
    ELSE Transcoded(Utf8Append(Head(units)), utf16to8(Tail(units)))

\* the uint16_t buffer of len / 2 + (len odd ? 1 : 0) zero-initialised units after len bytes were read into it
Utf16Units(bytes) ==
    [k \in 1..((Len(bytes) + 1) \div 2) |->
        bytes[2 * k - 1] + 256 * (IF 2 * k <= Len(bytes) THEN bytes[2 * k] ELSE 0)]

\* len / 2 + ((len % 2) == 0 ? 0 : 1) on int32_t, the division truncating
Utf16BufferLen(len) ==
    (IF len >= 0 THEN len \div 2 ELSE -((-len) \div 2)) + (IF len % 2 = 0 THEN 0 ELSE 1)

Utf8Result(p, out) == IF out.ok THEN Ok(p, out.val) ELSE Fail("InvalidEncoding", p)

Utf16Text(data) == IF ~data.ok THEN data ELSE Utf8Result(data.pos, utf16to8(Utf16Units(data.val)))

\* a UTF16 case that reads whole code units: len rounded up to an even number of bytes
TextBody_mut_reads_whole_units(f, len, encoding) ==
    IF ~len.ok THEN len
    ELSE IF encoding = UTF8
         THEN (IF len.val < 0 THEN Fail("BadAlloc", len.pos) ELSE ReadRaw(f, len.pos, len.val))
    ELSE IF encoding = UTF16
         THEN (IF Utf16BufferLen(len.val) < 0 THEN Fail("BadAlloc", len.pos)
                    ELSE Utf16Text(ReadRaw(f, len.pos, 2 * Utf16BufferLen(len.val))))
    ELSE Ok(len.pos, <<>>)

\* read_text after its length prefix was read
TextBody(f, len, encoding) ==
    IF ~len.ok THEN len
    ELSE IF encoding = UTF8
         THEN (IF len.val < 0 THEN Fail("BadAlloc", len.pos) ELSE ReadRaw(f, len.pos, len.val))
    ELSE IF encoding = UTF16
         THEN (IF Utf16BufferLen(len.val) < 0 THEN Fail("BadAlloc", len.pos)
                    ELSE Utf16Text(ReadRaw(f, len.pos, len.val)))
    \* no case of the switch: return ""
    ELSE Ok(len.pos, <<>>)

\* read_text: a 4-byte signed length, then that many bytes, decoded by `encoding`
read_text(f, p, encoding) == TextBody(f, ReadS32(f, p), encoding)

----------------------------------------------------------------------------
(* What a call hands to its caller *)

NoRet == [kind |-> "none"]
\* return nullptr
Absent == [kind |-> "null"]
\* return mdlData / return animData
Returned(m) == [kind |-> "model", data |-> m]
Value(v) == [kind |-> "value", val |-> v]

\* a call that hands out the record it had when the read failed
Raise_mut_return_partial(e, m) == Returned(m)

\* An exception leaves the call: the local shared_ptr is destroyed during
\* unwinding, the caller receives no record.
Raise(e, m) == [kind |-> "throw", what |-> e]

NoRecord == [none |-> TRUE]

----------------------------------------------------------------------------
(* The index readers called on their own *)

ByteSamples == {0, 1, 127, 128, 255}

IndexTypeSamples == {0, 1, 2, 3, 4}

IndexInputs == UNION {[1..n -> ByteSamples] : n \in 0..4}

InitIndex ==
    /\ file \in IndexInputs
    /\ pos = 0
    /\ pc = "call"
    /\ hdr \in [type : IndexTypeSamples]
    /\ mdl = NoRecord
    /\ remaining = -1
    /\ ret = NoRet
    /\ input = NoRecord
    /\ sched = NoRecord

CallIndex(r, name) ==
    /\ pos' = r.pos
    /\ ret' = IF r.ok THEN Value(r.val) ELSE Raise(r.err, mdl)
    /\ pc' = name
    /\ UNCHANGED <<file, hdr, mdl, remaining, input, sched>>

CallReadIndex ==
    /\ pc = "call"
    /\ CallIndex(read_index(file, pos, hdr.type), "read_index")

CallReadVertexIndex ==
    /\ pc = "call"
    /\ CallIndex(read_vertex_index(file, pos, hdr.type), "read_vertex_index")

NextIndex == CallReadIndex \/ CallReadVertexIndex

SpecIndex == InitIndex /\ [][NextIndex]_vars

----------------------------------------------------------------------------
(* read_text called on its own *)

\* the longest stored text body
MaxText == 4

\* bytes of 7-bit characters and of the surrogates D800, DC00
TextBytes == {0, 65, 216, 220}

\* a length prefix and the bytes that follow it, fewer, as many or more than it says
TextInputs ==
    [len : {-2} \cup (0..(MaxText + 1)), body : UNION {[1..n -> TextBytes] : n \in 0..MaxText}]

InitText ==
    /\ input \in TextInputs
    /\ file = <<input.len % 256, (input.len \div 256) % 256, (input.len \div 65536) % 256,
                (input.len \div 16777216) % 256>> \o input.body
    /\ pos = 0
    /\ pc = "call"
    /\ hdr \in [textEncoding : {UTF16, UTF8, 2}]
    /\ mdl = NoRecord
    /\ remaining = -1
    /\ ret = NoRet
    /\ sched = NoRecord

CallReadText ==
    /\ pc = "call"
    /\ CallIndex(read_text(file, pos, hdr.textEncoding), "read_text")

NextText == CallReadText

SpecText == InitText /\ [][NextText]_vars

----------------------------------------------------------------------------
(* Motion decoder: mmd::vmd::load *)

\* "Vocaloid Motion Data " in ASCII
VmdStem == <<86, 111, 99, 97, 108, 111, 105, 100, 32, 77, 111, 116, 105, 111, 110, 32, 68, 97, 116, 97, 32>>
\* "Vocaloid Motion Data file"
VmdIdentV1 == VmdStem \o <<102, 105, 108, 101>>
\* "Vocaloid Motion Data 0002"
VmdIdentV2 == VmdStem \o <<48, 48, 48, 50>>

\* std::array<char, 30> ident
IdentSize == 30
\* std::array<char, 20> mdlName; mdlNameLen = (version == 1) ? 10 : 20
MdlNameLenV1 == 10
MdlNameLenV2 == 20

\* ustring::compare(const char *, const char *): equality of the two
\* NUL-terminated strings; `lit` holds no NUL and is shorter than the buffer
compare(buf, lit) ==
    /\ Len(buf) > Len(lit)
    /\ SubSeq(buf, 1, Len(lit)) = lit
    /\ buf[Len(lit) + 1] = 0

\* the packed keyframe structs: sizeof(T) and offsetof(T, frameIndex)
KeyframeLayout == [size |-> 111, off |-> 15]
MorphLayout == [size |-> 23, off |-> 15]
CameraLayout == [size |-> 61, off |-> 0]
LightLayout == [size |-> 28, off |-> 0]

\* uint32_t frameIndex of a record, most significant byte first
frameIndex(rec, lay) == <<rec[lay.off + 4], rec[lay.off + 3], rec[lay.off + 2], rec[lay.off + 1]>>

\* a.frameIndex < b.frameIndex on uint32_t
FrameLess(a, b, lay) ==
    LET x == frameIndex(a, lay)
        y == frameIndex(b, lay)
    IN \E i \in 1..4 : x[i] < y[i] /\ \A j \in 1..(i - 1) : x[j] = y[j]

Perms(n) == {p \in [1..n -> 1..n] : \A i, j \in 1..n : i # j => p[i] # p[j]}

\* a sort that leaves the records as stored
StdSort_mut_unsorted(recs, lay) == {recs}

\* std::sort with the comparator FrameLess: the result is a permutation of the
\* input in which no element is less than an earlier one; the order of
\* equivalent elements is unspecified, so every such permutation is an outcome.
StdSort(recs, lay) ==
    LET n == Len(recs)
    IN {[i \in 1..n |-> recs[p[i]]] : p \in
          {q \in Perms(n) : \A i \in 1..n, j \in 1..n : i < j => ~FrameLess(recs[q[j]], recs[q[i]], lay)}}

\* read_keyframe_data<T>: the count, the records as stored, then the sort.
\* val is the set of sequences the sort may leave.
read_keyframe_data(f, p, lay) ==
    LET n == ReadS32(f, p)
    IN IF ~n.ok THEN n
       \* a count of 2^31 or more, or more records than bytes remain
       ELSE IF n.val < 0 \/ n.val > Len(f) - n.pos THEN Fail("TruncatedInput", n.pos)
       ELSE LET raw == ReadRaw(f, n.pos, n.val * lay.size)
            IN IF ~raw.ok THEN raw
               ELSE Ok(raw.pos,
                       StdSort([i \in 1..n.val |-> SubSeq(raw.val, (i - 1) * lay.size + 1, i * lay.size)], lay))

(* Motion files offered to the decoder *)

Pad(s, n) == s \o Zeros(n - Len(s))

\* frame indices as stored (little-endian): 1, 256 and 2^31
FrameVals == {<<1, 0, 0, 0>>, <<0, 1, 0, 0>>, <<0, 0, 0, 128>>}

FrameLists == UNION {[1..n -> FrameVals] : n \in 0..MaxRec}

\* the k-th stored record of a track: its frame index, and k in a byte outside the frame index
StoredRecord(fr, k, lay) ==
    [i \in 1..lay.size |->
        IF i > lay.off /\ i <= lay.off + 4 THEN fr[i - lay.off]
        ELSE IF i = lay.off + 5 THEN k ELSE 0]

StoredTrack(frames, lay) == [k \in 1..Len(frames) |-> StoredRecord(frames[k], k, lay)]

EncCount(n) == <<n, 0, 0, 0>>

EncTrack(recs) == EncCount(Len(recs)) \o Flatten(recs)

VmdIdents ==
    { Pad(VmdIdentV1, IdentSize), Pad(VmdIdentV2, IdentSize),
      VmdIdentV1 \o <<0, 120, 121, 122, 0>>, VmdIdentV2 \o <<0, 120, 121, 122, 123>>,
      VmdIdentV1 \o <<88, 0, 0, 0, 0>>, VmdIdentV2 \o <<50, 0, 0, 0, 0>>,
      Pad(VmdStem \o <<48, 48, 48, 51>>, IdentSize), Pad(VmdStem, IdentSize),
      Zeros(IdentSize), Pad(<<80, 77, 88, 32>>, IdentSize) }

\* the 20 bytes that follow the identifier: a padded name, and one without padding
VmdNames == { Pad(<<65, 66>>, MdlNameLenV2), [i \in 1..MdlNameLenV2 |-> 96 + i] }

VmdDescription(ident, name, frames, extra) ==
    [ ident |-> ident, name |-> name,
      tracks |-> << StoredTrack(frames, KeyframeLayout),
                    StoredTrack(Rev(frames), MorphLayout),
                    StoredTrack(IF frames = <<>> THEN <<>> ELSE Tail(frames), CameraLayout),
                    StoredTrack(IF Len(frames) < 2 THEN frames ELSE Tail(Tail(frames)), LightLayout) >>,
      extra |-> extra, cut |-> -1 ]

\* the bytes of a motion file: version 1 stores a 10-byte name, version 2 a 20-byte name
EncVmd(d, nameLen) ==
    d.ident \o SubSeq(d.name, 1, nameLen)
      \o EncTrack(d.tracks[1]) \o EncTrack(d.tracks[2])
      \o EncTrack(d.tracks[3]) \o EncTrack(d.tracks[4]) \o d.extra

VmdNameLenOf(ident) == IF compare(ident, VmdIdentV1) THEN MdlNameLenV1 ELSE MdlNameLenV2

VmdDescriptions ==
    { VmdDescription(i, n, <<<<1, 0, 0, 0>>, <<0, 1, 0, 0>>>>, <<>>) : i \in VmdIdents, n \in VmdNames }
    \cup { VmdDescription(i, Pad(<<65, 66>>, MdlNameLenV2), fl, e) :
             i \in {Pad(VmdIdentV1, IdentSize), Pad(VmdIdentV2, IdentSize)},
             fl \in FrameLists, e \in {<<>>, <<7, 7>>} }

\* a file cut short after `cut` bytes
VmdCuts(d) ==
    LET whole == EncVmd(d, VmdNameLenOf(d.ident))
    IN {[d EXCEPT !.cut = k] : k \in 0..(Len(whole) - 1)}

VmdInputs ==
    VmdDescriptions
    \cup VmdCuts(VmdDescription(Pad(VmdIdentV2, IdentSize), Pad(<<65, 66>>, MdlNameLenV2),
                                <<<<0, 1, 0, 0>>, <<1, 0, 0, 0>>>>, <<>>))

VmdFileOf(d) ==
    LET whole == EncVmd(d, VmdNameLenOf(d.ident))
    IN IF d.cut < 0 THEN whole ELSE SubSeq(whole, 1, d.cut)

InitVmd ==
    /\ input \in VmdInputs
    /\ file = VmdFileOf(input)
    /\ pos = 0
    /\ pc = "vmd_ident"
    /\ hdr = NoRecord
    /\ mdl = NoRecord
    /\ remaining = -1
    /\ ret = NoRet
    /\ sched = NoRecord

(* The steps of mmd::vmd::load(ufile::IFile &) *)

\* an exception leaves the load
VmdThrow(r) ==
    /\ pos' = r.pos
    /\ ret' = Raise(r.err, mdl)
    /\ mdl' = NoRecord
    /\ pc' = "vmd_failed"
    /\ UNCHANGED <<file, hdr, remaining, input, sched>>

\* the identifier's version, 0 when it is neither literal
IdentVersion(ident) ==
    IF compare(ident, VmdIdentV1) THEN 1 ELSE IF compare(ident, VmdIdentV2) THEN 2 ELSE 0

ReadIdent ==
    /\ pc = "vmd_ident"
    /\ LET r == ReadRaw(file, pos, IdentSize)
       IN IF ~r.ok THEN VmdThrow(r)
          ELSE /\ pos' = r.pos
               /\ IF IdentVersion(r.val) = 0
                  THEN /\ ret' = Absent
                       /\ pc' = "vmd_absent"
                       /\ UNCHANGED <<hdr, mdl>>
                  ELSE /\ hdr' = [version |-> IdentVersion(r.val)]
                       /\ mdl' = [modelName |-> <<>>, keyframes |-> <<>>, morphs |-> <<>>,
                                  cameras |-> <<>>, lights |-> <<>>]
                       /\ pc' = "vmd_name"
                       /\ UNCHANGED ret
               /\ UNCHANGED <<file, remaining, input, sched>>

\* a name of 20 bytes whatever the version
mdlNameLen_mut_always20(version) == MdlNameLenV2

\* uint32_t mdlNameLen = (version == 1) ? 10 : 20
mdlNameLen(version) == IF version = 1 THEN MdlNameLenV1 ELSE MdlNameLenV2

ReadModelName ==
    /\ pc = "vmd_name"
    /\ LET r == ReadRaw(file, pos, mdlNameLen(hdr.version))
       IN IF ~r.ok THEN VmdThrow(r)
          ELSE /\ pos' = r.pos
               /\ mdl' = [mdl EXCEPT !.modelName = r.val]
               /\ pc' = "vmd_keyframes"
               /\ UNCHANGED <<file, hdr, remaining, ret, input, sched>>

\* animData-><field> = read_keyframe_data<T>(f)
ReadTrack(here, field, lay, next) ==
    /\ pc = here
    /\ LET r == read_keyframe_data(file, pos, lay)
       IN IF ~r.ok THEN VmdThrow(r)
          ELSE \E sorted \in r.val :
               /\ pos' = r.pos
               /\ mdl' = [mdl EXCEPT ![field] = sorted]
               /\ pc' = next
               /\ ret' = IF next = "vmd_done" THEN Returned(mdl') ELSE ret
               /\ UNCHANGED <<file, hdr, remaining, input, sched>>

ReadKeyframes == ReadTrack("vmd_keyframes", "keyframes", KeyframeLayout, "vmd_morphs")
ReadMorphs == ReadTrack("vmd_morphs", "morphs", MorphLayout, "vmd_cameras")
ReadCameras == ReadTrack("vmd_cameras", "cameras", CameraLayout, "vmd_lights")
ReadLights == ReadTrack("vmd_lights", "lights", LightLayout, "vmd_done")

NextVmd == ReadIdent \/ ReadModelName \/ ReadKeyframes \/ ReadMorphs \/ ReadCameras \/ ReadLights

SpecVmd == InitVmd /\ [][NextVmd]_vars

----------------------------------------------------------------------------
(* Properties of the motion decoder *)

\* the C string a buffer holds: the bytes before its first NUL
CStr(buf) ==
    LET nuls == {i \in 1..Len(buf) : buf[i] = 0}
    IN IF nuls = {} THEN buf
       ELSE SubSeq(buf, 1, (CHOOSE i \in nuls : \A j \in nuls : i <= j) - 1)

StoredIdent == CStr(SubSeq(file, 1, IdentSize))

VmdFields == <<"keyframes", "morphs", "cameras", "lights">>
VmdLayouts == <<KeyframeLayout, MorphLayout, CameraLayout, LightLayout>>

\* C2: once the 30-byte identifier has been read, the load has returned
\* absent (and raised nothing) exactly when the identifier is neither known
\* literal; the decoded model name is the next 10 bytes as stored when the
\* identifier is the first literal, the next 20 when it is the second,
\* padding included.
C2_IdentAndModelName ==
    /\ (pc # "vmd_ident" /\ Len(file) >= IdentSize)
         => (ret = Absent <=> (StoredIdent # VmdIdentV1 /\ StoredIdent # VmdIdentV2))
    /\ (pc \in {"vmd_keyframes", "vmd_morphs", "vmd_cameras", "vmd_lights", "vmd_done"})
         => /\ StoredIdent = VmdIdentV1 => mdl.modelName = SubSeq(file, IdentSize + 1, IdentSize + 10)
            /\ StoredIdent = VmdIdentV2 => mdl.modelName = SubSeq(file, IdentSize + 1, IdentSize + 20)
            /\ Len(mdl.modelName) \in {10, 20}

\* a version 1 file whose identifier carries bytes after its NUL, decoded to
\* a 10-byte name that keeps its padding
C2_Witness ==
    /\ pc = "vmd_done"
    /\ StoredIdent = VmdIdentV1
    /\ SubSeq(file, 1, IdentSize) # Pad(VmdIdentV1, IdentSize)
    /\ Len(ret.data.modelName) = 10
    /\ ret.data.modelName[10] = 0

IsPermutation(a, b) ==
    /\ Len(a) = Len(b)
    /\ \E p \in Perms(Len(a)) : \A i \in 1..Len(a) : a[i] = b[p[i]]

\* a frame index as the pair (high 16 bits, low 16 bits)
FrameValue(rec, lay) ==
    <<rec[lay.off + 4] * 256 + rec[lay.off + 3], rec[lay.off + 2] * 256 + rec[lay.off + 1]>>

FrameLeq(x, y) == x[1] < y[1] \/ (x[1] = y[1] /\ x[2] <= y[2])

NonDecreasing(recs, lay) ==
    \A i \in 1..(Len(recs) - 1) : FrameLeq(FrameValue(recs[i], lay), FrameValue(recs[i + 1], lay))

\* C3: every track of a returned animation holds exactly the records stored
\* for it (as many as its count prefix says, the same multiset) in
\* non-decreasing order of frame index.
C3_TracksSortedPermutation ==
    (pc = "vmd_done") =>
        \A k \in 1..4 :
            /\ Len(ret.data[VmdFields[k]]) = Len(input.tracks[k])
            /\ IsPermutation(ret.data[VmdFields[k]], input.tracks[k])
            /\ NonDecreasing(ret.data[VmdFields[k]], VmdLayouts[k])

\* stored frame indices 2^31, 1, 256 come back as 1, 256, 2^31
C3_Witness ==
    /\ pc = "vmd_done"
    /\ Len(input.tracks[1]) = 3
    /\ [i \in 1..3 |-> SubSeq(input.tracks[1][i], 16, 19)] = <<<<0, 0, 0, 128>>, <<1, 0, 0, 0>>, <<0, 1, 0, 0>>>>
    /\ [i \in 1..3 |-> SubSeq(ret.data.keyframes[i], 16, 19)] = <<<<1, 0, 0, 0>>, <<0, 1, 0, 0>>, <<0, 0, 0, 128>>>>

IndexIn(recs, r) == CHOOSE i \in 1..Len(recs) : recs[i] = r

\* C4: two records of a track with the same frame index come back in the
\* order in which they were stored.
C4_SortIsStable ==
    (pc = "vmd_done") =>
        \A k \in 1..4 :
            \A i, j \in 1..Len(input.tracks[k]) :
                (i < j /\ FrameValue(input.tracks[k][i], VmdLayouts[k]) = FrameValue(input.tracks[k][j], VmdLayouts[k]))
                    => IndexIn(ret.data[VmdFields[k]], input.tracks[k][i])
                         < IndexIn(ret.data[VmdFields[k]], input.tracks[k][j])

----------------------------------------------------------------------------
(* Model decoder: mmd::pmx::load, the entries of its lists.  An entry is   *)
(* read as a run of fields in the order of the source's reads; a field the *)
(* source reads under a condition on earlier fields is a step that unfolds *)
(* into fields once those earlier fields are known.  The first failure     *)
(* ends the run.                                                           *)

Raw(n) == [kind |-> "raw", arg |-> n]
Int32 == [kind |-> "s32", arg |-> 0]
Int8 == [kind |-> "s8", arg |-> 0]
UInt8 == [kind |-> "u8", arg |-> 0]
UInt16 == [kind |-> "u16", arg |-> 0]
Index(type) == [kind |-> "index", arg |-> type]
VertexIndex(type) == [kind |-> "vindex", arg |-> type]
Text(encoding) == [kind |-> "text", arg |-> encoding]
Throw(what) == [kind |-> "throw", arg |-> what]
\* steps that unfold
Weights(boneIndexSize) == [kind |-> "weights", arg |-> boneIndexSize]
Toon(textureIndexSize) == [kind |-> "toon", arg |-> textureIndexSize]
BoneOptional(boneIndexSize) == [kind |-> "bone_optional", arg |-> boneIndexSize]
IkLinks(boneIndexSize) == [kind |-> "ik_links", arg |-> boneIndexSize]
IkLink(n, boneIndexSize) == [kind |-> "ik_link", arg |-> [n |-> n, type |-> boneIndexSize]]
IkLimits == [kind |-> "ik_limits", arg |-> 0]
MorphBody(h) == [kind |-> "morph_body", arg |-> h]
MorphElements(n, lay) == [kind |-> "morph_elements", arg |-> [n |-> n, lay |-> lay]]

Unfolds(fd) ==
    fd.kind \in {"weights", "toon", "bone_optional", "ik_links", "ik_link", "ik_limits", "morph_body", "morph_elements"}

ReadField(f, p, fd) ==
    CASE fd.kind = "raw" -> (IF fd.arg < 0 THEN Fail("BadAlloc", p) ELSE ReadRaw(f, p, fd.arg))
      [] fd.kind = "s32" -> ReadS32(f, p)
      [] fd.kind = "s8" -> ReadS8(f, p)
      [] fd.kind = "u8" -> ReadU8(f, p)
      [] fd.kind = "u16" -> ReadU16(f, p)
      [] fd.kind = "index" -> read_index(f, p, fd.arg)
      [] fd.kind = "vindex" -> read_vertex_index(f, p, fd.arg)
      [] fd.kind = "text" -> read_text(f, p, fd.arg)
      [] fd.kind = "throw" -> Fail(fd.arg, p)

Last(vals) == vals[Len(vals)]

\* floats are kept as stored; 1.f - w is kept as that difference
Float(w) == [op |-> "bits", w |-> w]
OneMinus(w) == [op |-> "1-", w |-> w]
\* 1.f and 0.f as stored
FloatOne == <<0, 0, 128, 63>>
FloatZero == <<0, 0, 0, 0>>
\* 2.f as stored
FloatTwo == <<0, 0, 0, 64>>

\* enum class WeightType : char
BDEF1 == 0
BDEF2 == 1
BDEF4 == 2
SDEF == 3
QDEF == 4

\* a weight-type switch without its default
WeightFields_mut_no_default(weightType, boneIndexSize) ==
    CASE weightType = BDEF1 -> <<Index(boneIndexSize)>>
      [] weightType = BDEF2 -> <<Index(boneIndexSize), Index(boneIndexSize), Raw(4)>>
      [] weightType \in {BDEF4, QDEF} ->
            <<Index(boneIndexSize), Index(boneIndexSize), Index(boneIndexSize), Index(boneIndexSize),
              Raw(4), Raw(4), Raw(4), Raw(4)>>
      [] weightType = SDEF ->
            <<Index(boneIndexSize), Index(boneIndexSize), Raw(4), Raw(12), Raw(12), Raw(12)>>
      [] OTHER -> <<>>

\* the reads of the weight-type switch; default: throw
WeightFields(weightType, boneIndexSize) ==
    CASE weightType = BDEF1 -> <<Index(boneIndexSize)>>
      [] weightType = BDEF2 -> <<Index(boneIndexSize), Index(boneIndexSize), Raw(4)>>
      [] weightType \in {BDEF4, QDEF} ->
            <<Index(boneIndexSize), Index(boneIndexSize), Index(boneIndexSize), Index(boneIndexSize),
              Raw(4), Raw(4), Raw(4), Raw(4)>>
      [] weightType = SDEF ->
            <<Index(boneIndexSize), Index(boneIndexSize), Raw(4), Raw(12), Raw(12), Raw(12)>>
      [] OTHER -> <<Throw("InvalidFormat")>>

\* enum class BoneFlag : uint16_t
IndexedTailPosition == 1
IK == 32
InheritRotation == 256
InheritTranslation == 512
FixedAxis == 1024
LocalCoordinate == 2048
ExternalParentDeform == 8192

\* (flags & bit) != BoneFlag::None, for a single bit
HasFlag(flags, bit) == (flags \div bit) % 2 = 1

\* an inherit block read once for each of the two inherit flags
BoneOptionalFields_mut_inherit_per_flag(flags, boneIndexSize) ==
    (IF HasFlag(flags, IndexedTailPosition) THEN <<Index(boneIndexSize)>> ELSE <<Raw(12)>>)
    \o (IF HasFlag(flags, InheritRotation) THEN <<Index(boneIndexSize), Raw(4)>> ELSE <<>>)
    \o (IF HasFlag(flags, InheritTranslation) THEN <<Index(boneIndexSize), Raw(4)>> ELSE <<>>)
    \o (IF HasFlag(flags, FixedAxis) THEN <<Raw(12)>> ELSE <<>>)
    \o (IF HasFlag(flags, LocalCoordinate) THEN <<Raw(12), Raw(12)>> ELSE <<>>)
    \o (IF HasFlag(flags, ExternalParentDeform) THEN <<Index(boneIndexSize)>> ELSE <<>>)
    \o (IF HasFlag(flags, IK)
        THEN <<Index(boneIndexSize), Int32, Raw(4), Int32, IkLinks(boneIndexSize)>> ELSE <<>>)

\* the reads that follow a bone's flags, in the order of the ifs
BoneOptionalFields(flags, boneIndexSize) ==
    (IF HasFlag(flags, IndexedTailPosition) THEN <<Index(boneIndexSize)>> ELSE <<Raw(12)>>)
    \o (IF HasFlag(flags, InheritRotation) \/ HasFlag(flags, InheritTranslation)
        THEN <<Index(boneIndexSize), Raw(4)>> ELSE <<>>)
    \o (IF HasFlag(flags, FixedAxis) THEN <<Raw(12)>> ELSE <<>>)
    \o (IF HasFlag(flags, LocalCoordinate) THEN <<Raw(12), Raw(12)>> ELSE <<>>)
    \o (IF HasFlag(flags, ExternalParentDeform) THEN <<Index(boneIndexSize)>> ELSE <<>>)
    \o (IF HasFlag(flags, IK)
        THEN <<Index(boneIndexSize), Int32, Raw(4), Int32, IkLinks(boneIndexSize)>> ELSE <<>>)

\* enum class MorphType
MorphGroup == 0
MorphVertex == 1
MorphBone == 2
MorphUv == 3
MorphUva4 == 7
MorphMaterial == 8
MorphFlip == 9
MorphImpulse == 10

\* the index width initMorphs is called with, and sizeof(T) - sizeof(m.index)
\* of the element type; size -1 when no case of the switch matches
MorphElementLayout(type, h) ==
    CASE type \in {MorphGroup, MorphFlip} -> [indexType |-> h.morphIndexSize, size |-> 4]
      [] type = MorphVertex -> [indexType |-> h.vertexIndexSize, size |-> 12]
      [] type = MorphBone -> [indexType |-> h.boneIndexSize, size |-> 28]
      [] type \in MorphUv..MorphUva4 -> [indexType |-> h.vertexIndexSize, size |-> 16]
      [] type = MorphMaterial -> [indexType |-> h.materialIndexSize, size |-> 113]
      [] type = MorphImpulse -> [indexType |-> h.rigidBodyIndexSize, size |-> 25]
      [] OTHER -> [indexType |-> 0, size |-> -1]

\* initMorphs<T>(indexType): new T[count], then count elements, each an index
\* read by read_vertex_index and the rest of the element as stored
initMorphs(count, lay) ==
    IF count < 0 THEN <<Throw("BadAlloc")>> ELSE <<MorphElements(count, lay)>>

\* the switch on morph->type; no case, no read
MorphFields(type, count, h) ==
    IF MorphElementLayout(type, h).size < 0 THEN <<>>
    ELSE initMorphs(count, MorphElementLayout(type, h))

\* the fields a step unfolds into, given the values read so far
Unfold(fd, vals) ==
    CASE fd.kind = "weights" -> WeightFields(Last(vals), fd.arg)
      [] fd.kind = "toon" -> (IF Last(vals) = 0 THEN <<Index(fd.arg)>> ELSE <<Int8>>)
      [] fd.kind = "bone_optional" -> BoneOptionalFields(Last(vals), fd.arg)
      [] fd.kind = "ik_links" -> <<IkLink(Last(vals), fd.arg)>>
      [] fd.kind = "ik_link" ->
            (IF fd.arg.n <= 0 THEN <<>>
             ELSE <<Index(fd.arg.type), Int8, IkLimits, IkLink(fd.arg.n - 1, fd.arg.type)>>)
      [] fd.kind = "ik_limits" -> (IF Last(vals) = 1 THEN <<Raw(12), Raw(12)>> ELSE <<>>)
      [] fd.kind = "morph_body" -> MorphFields(vals[Len(vals) - 1], Last(vals), fd.arg)
      [] fd.kind = "morph_elements" ->
            (IF fd.arg.n <= 0 THEN <<>>
             ELSE <<VertexIndex(fd.arg.lay.indexType), Raw(fd.arg.lay.size),
                    MorphElements(fd.arg.n - 1, fd.arg.lay)>>)

RECURSIVE ReadFields(_, _, _, _)
ReadFieldsAfter(f, r, fds, vals) ==
    IF ~r.ok THEN r ELSE ReadFields(f, r.pos, fds, Append(vals, r.val))

\* the values of the fields fds read from p on, after the values vals
ReadFields(f, p, fds, vals) ==
    IF fds = <<>> THEN Ok(p, vals)
    ELSE IF Unfolds(Head(fds)) THEN ReadFields(f, p, Unfold(Head(fds), vals) \o Tail(fds), vals)
    ELSE ReadFieldsAfter(f, ReadField(f, p, Head(fds)), Tail(fds), vals)

\* VertexData's default member initialisers
NewVertex ==
    [position |-> <<>>, normal |-> <<>>, uv |-> <<>>,
     boneIds |-> <<-1, -1, -1, -1>>,
     boneWeights |-> <<Float(FloatZero), Float(FloatZero), Float(FloatZero), Float(FloatZero)>>]

\* a BDEF1 case that fills the slots it does not use with bone 0
ApplyWeights_mut_bdef1_zero_filled(v, weightType, w) ==
    CASE weightType = BDEF1 ->
            [v EXCEPT !.boneIds = <<w[1], 0, 0, 0>>, !.boneWeights[1] = Float(FloatOne)]
      [] weightType \in {BDEF2, SDEF} ->
            [v EXCEPT !.boneIds[1] = w[1], !.boneIds[2] = w[2],
                      !.boneWeights[1] = Float(w[3]), !.boneWeights[2] = OneMinus(w[3])]
      [] weightType \in {BDEF4, QDEF} ->
            [v EXCEPT !.boneIds = <<w[1], w[2], w[3], w[4]>>,
                      !.boneWeights = <<Float(w[5]), Float(w[6]), Float(w[7]), Float(w[8])>>]
      [] OTHER -> v

\* what the weight-type switch stores in the vertex; w holds the values read by its case
ApplyWeights(v, weightType, w) ==
    CASE weightType = BDEF1 ->
            [v EXCEPT !.boneIds[1] = w[1], !.boneWeights[1] = Float(FloatOne)]
      [] weightType \in {BDEF2, SDEF} ->
            [v EXCEPT !.boneIds[1] = w[1], !.boneIds[2] = w[2],
                      !.boneWeights[1] = Float(w[3]), !.boneWeights[2] = OneMinus(w[3])]
      [] weightType \in {BDEF4, QDEF} ->
            [v EXCEPT !.boneIds = <<w[1], w[2], w[3], w[4]>>,
                      !.boneWeights = <<Float(w[5]), Float(w[6]), Float(w[7]), Float(w[8])>>]
      [] OTHER -> v

VertexOf(vals) ==
    ApplyWeights([NewVertex EXCEPT !.position = vals[1], !.normal = vals[2], !.uv = vals[3]],
                 vals[5], SubSeq(vals, 6, Len(vals)))

\* one pass of the vertex loop; the last field is edgeScale
ReadVertexData(f, p, h) ==
    ReadFields(f, p,
        <<Raw(12), Raw(12), Raw(8), Raw(h.appendixUvCount * 4), UInt8, Weights(h.boneIndexSize), Raw(4)>>,
        <<>>)

\* std::vector<uint16_t>::push_back of the int32_t index
FaceOf(vals) == vals[1] % 65536

\* one pass of the face loop
ReadFaceIndex(f, p, h) == ReadFields(f, p, <<VertexIndex(h.vertexIndexSize)>>, <<>>)

TextureOf(vals) == vals[1]

\* one pass of the texture loop
ReadTexturePath(f, p, h) == ReadFields(f, p, <<Text(h.textEncoding)>>, <<>>)

\* a material that keeps the first text of its name pair
MaterialOf_mut_first_name(vals) ==
    [name |-> vals[1], diffuseColor |-> vals[3], specularColor |-> vals[4],
     specularity |-> vals[5], ambientColor |-> vals[6], drawingMode |-> vals[7],
     edgeColor |-> vals[8], edgeSize |-> vals[9], textureIndex |-> vals[10],
     sphereIndex |-> vals[11], sphereMode |-> vals[12], toonFlag |-> vals[13],
     toonIndex |-> vals[14], memo |-> vals[15], faceCount |-> vals[16]]

MaterialOf(vals) ==
    [name |-> vals[2], diffuseColor |-> vals[3], specularColor |-> vals[4],
     specularity |-> vals[5], ambientColor |-> vals[6], drawingMode |-> vals[7],
     edgeColor |-> vals[8], edgeSize |-> vals[9], textureIndex |-> vals[10],
     sphereIndex |-> vals[11], sphereMode |-> vals[12], toonFlag |-> vals[13],
     toonIndex |-> vals[14], memo |-> vals[15], faceCount |-> vals[16]]

\* one pass of the material loop
ReadMaterialData(f, p, h) ==
    ReadFields(f, p,
        <<Text(h.textEncoding), Text(h.textEncoding), Raw(16), Raw(12), Raw(4), Raw(12),
          UInt8, Raw(16), Raw(4), Index(h.textureIndexSize), Index(h.textureIndexSize),
          Int8, Int8, Toon(h.textureIndexSize), Text(h.textEncoding), Int32>>,
        <<>>)

BoneOf(vals) ==
    [nameJp |-> vals[1], name |-> vals[2], position |-> vals[3],
     parentBoneIdx |-> vals[4], layer |-> vals[5], flags |-> vals[6]]

\* one pass of the bone loop
ReadBoneData(f, p, h) ==
    ReadFields(f, p,
        <<Text(h.textEncoding), Text(h.textEncoding), Raw(12), Index(h.boneIndexSize),
          Int32, UInt16, BoneOptional(h.boneIndexSize)>>,
        <<>>)

\* morphs stays null when no case of the switch matches
MorphOf(vals, h) ==
    [nameLocal |-> vals[1], nameGlobal |-> vals[2], panelType |-> vals[3],
     type |-> vals[4], count |-> vals[5],
     morphs |-> [i \in 1..((Len(vals) - 5) \div 2) |->
                    [index |-> vals[4 + 2 * i], data |-> vals[5 + 2 * i]]],
     null |-> MorphElementLayout(vals[4], h).size < 0]

\* one pass of the morph loop
ReadMorphData(f, p, h) ==
    ReadFields(f, p,
        <<Text(h.textEncoding), Text(h.textEncoding), Int8, UInt8, Int32, MorphBody(h)>>,
        <<>>)

----------------------------------------------------------------------------
(* Model files offered to the decoder *)

EncS32(v) == <<v % 256, (v \div 256) % 256, (v \div 65536) % 256, (v \div 16777216) % 256>>

EncIdx(type, v) ==
    CASE type = IndexShort -> <<v % 256, (v \div 256) % 256>>
      [] type = IndexInt -> EncS32(v)
      [] OTHER -> <<v % 256>>

\* a text of 7-bit characters in the file's encoding
EncText(encoding, chars) ==
    IF encoding = UTF16
    THEN EncS32(2 * Len(chars)) \o Flatten([i \in 1..Len(chars) |-> <<chars[i], 0>>])
    ELSE EncS32(Len(chars)) \o chars

EncList(items) == EncS32(Len(items)) \o Flatten(items)

\* 0.5f and 0.25f as stored
FloatHalf == <<0, 0, 0, 63>>
FloatQuarter == <<0, 0, 128, 62>>

EncVertex(v, d) ==
    Pad(<<v.tag>>, 12) \o Zeros(12) \o Zeros(8)
      \o Zeros(IF d.auv < 128 THEN 4 * d.auv ELSE 0) \o <<v.wt>>
      \o (CASE v.wt = BDEF2 ->
                 EncIdx(d.sizes.bone, v.idx[1]) \o EncIdx(d.sizes.bone, v.idx[2]) \o v.w[1]
            [] v.wt = SDEF ->
                 EncIdx(d.sizes.bone, v.idx[1]) \o EncIdx(d.sizes.bone, v.idx[2]) \o v.w[1] \o Zeros(36)
            [] v.wt \in {BDEF4, QDEF} ->
                 Flatten([i \in 1..4 |-> EncIdx(d.sizes.bone, v.idx[i])]) \o Flatten(v.w)
            [] OTHER -> EncIdx(d.sizes.bone, v.idx[1]))
      \o FloatOne

EncMaterial(m, d) ==
    EncText(d.enc, m.nameLocal) \o EncText(d.enc, m.name) \o Zeros(44) \o <<m.drawingMode>> \o Zeros(20)
      \o EncIdx(d.sizes.texture, m.textureIndex) \o EncIdx(d.sizes.texture, m.sphereIndex)
      \o <<0, m.toonFlag>>
      \o (IF m.toonFlag = 0 THEN EncIdx(d.sizes.texture, m.toonIndex) ELSE <<m.toonIndex % 256>>)
      \o EncText(d.enc, m.memo) \o EncS32(m.faceCount)

EncIkLink(l, d) ==
    EncIdx(d.sizes.bone, l.boneIndex) \o <<l.hasLimits>> \o (IF l.hasLimits = 1 THEN Zeros(24) ELSE <<>>)

EncBone(b, d) ==
    EncText(d.enc, b.nameJp) \o EncText(d.enc, b.name) \o Zeros(12)
      \o EncIdx(d.sizes.bone, b.parentBoneIdx) \o EncS32(b.layer)
      \o <<b.flags % 256, b.flags \div 256>>
      \o (IF HasFlag(b.flags, IndexedTailPosition) THEN EncIdx(d.sizes.bone, 1) ELSE Pad(<<8>>, 12))
      \o (IF HasFlag(b.flags, InheritRotation) \/ HasFlag(b.flags, InheritTranslation)
          THEN EncIdx(d.sizes.bone, 2) \o FloatHalf ELSE <<>>)
      \o (IF HasFlag(b.flags, FixedAxis) THEN Pad(<<5>>, 12) ELSE <<>>)
      \o (IF HasFlag(b.flags, LocalCoordinate) THEN Pad(<<6>>, 12) \o Pad(<<7>>, 12) ELSE <<>>)
      \o (IF HasFlag(b.flags, ExternalParentDeform) THEN EncIdx(d.sizes.bone, 3) ELSE <<>>)
      \o (IF HasFlag(b.flags, IK)
          THEN EncIdx(d.sizes.bone, 4) \o EncS32(10) \o FloatOne
                 \o EncList([i \in 1..Len(b.links) |-> EncIkLink(b.links[i], d)])
          ELSE <<>>)

\* the index width and the rest of an element as the format stores a morph of this type
StoredMorphLayout(type, d) ==
    CASE type \in {MorphGroup, MorphFlip} -> [indexType |-> d.sizes.morph, size |-> 4]
      [] type = MorphVertex -> [indexType |-> d.sizes.vertex, size |-> 12]
      [] type = MorphBone -> [indexType |-> d.sizes.bone, size |-> 28]
      [] type \in MorphUv..MorphUva4 -> [indexType |-> d.sizes.vertex, size |-> 16]
      [] type = MorphMaterial -> [indexType |-> d.sizes.material, size |-> 113]
      [] type = MorphImpulse -> [indexType |-> d.sizes.rigid, size |-> 25]
      [] OTHER -> [indexType |-> IndexByte, size |-> 4]

EncMorph(m, d) ==
    LET lay == StoredMorphLayout(m.type, d)
    IN EncText(d.enc, m.nameLocal) \o EncText(d.enc, m.nameGlobal) \o <<m.panelType, m.type>>
         \o EncList([i \in 1..Len(m.elems) |-> EncIdx(lay.indexType, m.elems[i]) \o Zeros(lay.size)])

\* the bytes of a model file up to the end of its morph section
EncPmxBody(d) ==
    d.sig \o d.ver
      \o <<8, d.enc, d.auv, d.sizes.vertex, d.sizes.texture, d.sizes.material, d.sizes.bone,
           d.sizes.morph, d.sizes.rigid>>
      \o Flatten([i \in 1..4 |-> EncText(d.enc, d.names[i])])
      \o EncList([i \in 1..Len(d.vertices) |-> EncVertex(d.vertices[i], d)])
      \o EncList([i \in 1..Len(d.faces) |-> EncIdx(d.sizes.vertex, d.faces[i])])
      \o EncList([i \in 1..Len(d.textures) |-> EncText(d.enc, d.textures[i])])
      \o EncList([i \in 1..Len(d.materials) |-> EncMaterial(d.materials[i], d)])
      \o EncList([i \in 1..Len(d.bones) |-> EncBone(d.bones[i], d)])
      \o EncList([i \in 1..Len(d.morphs) |-> EncMorph(d.morphs[i], d)])

PmxFileOf(d) ==
    LET whole == EncPmxBody(d) \o d.extra
    IN IF d.cut < 0 THEN whole ELSE SubSeq(whole, 1, d.cut)

\* "PMX "
PmxSignature == <<80, 77, 88, 32>>

\* entries of the lists, told apart by k
VertexK(k) == [tag |-> k, wt |-> BDEF1, idx |-> <<k, 1, 2, 3>>,
               w |-> <<FloatQuarter, FloatHalf, FloatZero, FloatOne>>]
MaterialK(k) == [nameLocal |-> <<109, 48 + k>>, name |-> <<77, 48 + k>>, drawingMode |-> 1,
                 textureIndex |-> 0, sphereIndex |-> -1, toonFlag |-> 0, toonIndex |-> k,
                 memo |-> <<>>, faceCount |-> 3]
BoneK(k) == [nameJp |-> <<98, 48 + k>>, name |-> <<66, 48 + k>>, parentBoneIdx |-> -1, layer |-> k,
             flags |-> 0, links |-> <<>>]
MorphK(k) == [nameLocal |-> <<111, 48 + k>>, nameGlobal |-> <<79, 48 + k>>, panelType |-> 1,
              type |-> MorphVertex, elems |-> <<k>>]

\* a well-formed model with c[1] vertices, c[2] face indices, c[3] textures,
\* c[4] materials, c[5] bones and c[6] morphs
Shaped(c) ==
    [ sig |-> PmxSignature, ver |-> FloatTwo, enc |-> UTF8, auv |-> 0,
      sizes |-> [vertex |-> IndexByte, texture |-> IndexByte, material |-> IndexByte,
                 bone |-> IndexByte, morph |-> IndexByte, rigid |-> IndexByte],
      names |-> <<<<99>>, <<67, 78>>, <<100>>, <<68, 67>>>>,
      vertices |-> [k \in 1..c[1] |-> VertexK(k)],
      faces |-> [k \in 1..c[2] |-> k - 1],
      textures |-> [k \in 1..c[3] |-> <<116, 48 + k>>],
      materials |-> [k \in 1..c[4] |-> MaterialK(k)],
      bones |-> [k \in 1..c[5] |-> BoneK(k)],
      morphs |-> [k \in 1..c[6] |-> MorphK(k)],
      extra |-> <<>>, cut |-> -1 ]

BasePmx == Shaped(<<1, 1, 1, 1, 1, 1>>)

Domains == {"vertex", "texture", "material", "bone", "morph", "rigid"}

AllSizes(w) == [vertex |-> w, texture |-> w, material |-> w, bone |-> w, morph |-> w, rigid |-> w]

\* 2.1f and 1.f as stored
PmxVersions == {FloatTwo, <<102, 102, 6, 64>>, FloatOne}

PmxSignatures == {PmxSignature, <<80, 77, 88, 0>>, <<80, 109, 120, 32>>, <<80, 77, 68, 32>>, <<88, 77, 80, 32>>}

PmxSigVer == {[BasePmx EXCEPT !.sig = sg, !.ver = v] : sg \in PmxSignatures, v \in PmxVersions}

PmxCounts == {[Shaped(c) EXCEPT !.extra = e] : c \in [1..6 -> 0..MaxItems], e \in {<<>>}}

PmxWidths ==
    {[Shaped(c) EXCEPT !.sizes[k] = w] : c \in [1..6 -> {0, 1}], k \in Domains, w \in {IndexShort, 3, IndexInt}}

PmxHeaders == {[BasePmx EXCEPT !.enc = e, !.auv = a] : e \in {UTF16, UTF8, 2}, a \in {0, 1, 2, 255}}

PmxVertexKinds ==
    {[BasePmx EXCEPT !.sizes.bone = w,
                     !.vertices = <<[VertexK(1) EXCEPT !.wt = t, !.idx = ix, !.w[1] = w1], VertexK(2)>>] :
        w \in {IndexByte, IndexShort, IndexInt},
        t \in {BDEF1, BDEF2, BDEF4, SDEF, QDEF, 5, 255},
        ix \in {<<0, 1, 2, 3>>, <<-1, -1, -1, -1>>, <<255, 128, 127, 200>>},
        w1 \in {FloatQuarter, FloatTwo}}

PmxFaceKinds ==
    {[BasePmx EXCEPT !.sizes.vertex = w, !.faces = fs] :
        w \in {IndexByte, IndexShort, IndexInt},
        fs \in {<<0, 1, 2>>, <<255, 65535, -1>>, <<70000, 65536, 128>>}}

PmxMaterialKinds ==
    {[BasePmx EXCEPT !.sizes.texture = w, !.enc = e,
                     !.materials = <<[MaterialK(1) EXCEPT !.toonFlag = t, !.toonIndex = 200], MaterialK(2)>>] :
        w \in {IndexByte, IndexShort, IndexInt}, t \in {0, 1, 255}, e \in {UTF16, UTF8}}

BoneFlagBits == {IndexedTailPosition, IK, InheritRotation, InheritTranslation, FixedAxis,
                 LocalCoordinate, ExternalParentDeform}

RECURSIVE SumOf(_)
SumOf(S) == IF S = {} THEN 0 ELSE LET x == CHOOSE y \in S : TRUE IN x + SumOf(S \ {x})

IkLinkLists ==
    {<<>>, <<[boneIndex |-> 1, hasLimits |-> 0]>>,
     <<[boneIndex |-> 1, hasLimits |-> 1], [boneIndex |-> 2, hasLimits |-> 2]>>}

PmxBoneKinds ==
    {[BasePmx EXCEPT !.sizes.bone = w,
                     !.bones = <<[BoneK(1) EXCEPT !.flags = SumOf(bits), !.links = ls], BoneK(2)>>] :
        w \in {IndexByte, IndexShort}, bits \in SUBSET BoneFlagBits, ls \in IkLinkLists}

\* index widths that differ from domain to domain
MixedSizes ==
    [vertex |-> IndexInt, texture |-> IndexByte, material |-> IndexShort, bone |-> IndexByte,
     morph |-> IndexShort, rigid |-> IndexByte]

PmxMorphKinds ==
    {[BasePmx EXCEPT !.sizes = sz, !.extra = e,
                     !.morphs = <<[MorphK(1) EXCEPT !.type = t, !.elems = [i \in 1..n |-> ix]], MorphK(2)>>] :
        sz \in {AllSizes(IndexByte), AllSizes(IndexShort), AllSizes(IndexInt), MixedSizes},
        t \in (0..11) \cup {255}, n \in 0..2,
        ix \in {1, -1}, e \in {<<>>, <<1, 0, 0, 0>>}}

PmxCuts(d) == {[d EXCEPT !.cut = k] : k \in 0..(Len(EncPmxBody(d)) - 1)}

PmxCutInputs ==
    PmxCuts(BasePmx)
      \cup PmxCuts([BasePmx EXCEPT !.enc = UTF16, !.sizes = AllSizes(IndexShort),
                       !.vertices = <<[VertexK(1) EXCEPT !.wt = SDEF], [VertexK(2) EXCEPT !.wt = BDEF4]>>])

----------------------------------------------------------------------------
(* The steps of mmd::pmx::load(ufile::IFile &) *)

InitPmx ==
    /\ \/ input \in PmxSigVer
       \/ input \in PmxCounts
       \/ input \in PmxWidths
       \/ input \in PmxHeaders
       \/ input \in PmxVertexKinds
       \/ input \in PmxFaceKinds
       \/ input \in PmxMaterialKinds
       \/ input \in PmxBoneKinds
       \/ input \in PmxMorphKinds
       \/ input \in PmxCutInputs
    /\ file = PmxFileOf(input)
    /\ pos = 0
    /\ pc = "Signature"
    /\ hdr = NoRecord
    /\ mdl = NoRecord
    /\ remaining = -1
    /\ ret = NoRet
    /\ sched = NoRecord

\* an exception leaves the load
PmxThrow(r) ==
    /\ pos' = r.pos
    /\ ret' = Raise(r.err, mdl)
    /\ mdl' = NoRecord
    /\ pc' = "Failed"
    /\ remaining' = -1
    /\ UNCHANGED <<file, hdr, input, sched>>

PmxReject(p) ==
    /\ pos' = p
    /\ ret' = Absent
    /\ pc' = "Absent"
    /\ UNCHANGED <<file, hdr, mdl, remaining, input, sched>>

\* a test of the three letters only
SignatureOk_mut_prefix(sg) == sg[1] = 80 /\ sg[2] = 77 /\ sg[3] = 88

\* the negation of the test that returns nullptr
SignatureOk(sg) == ~(sg[1] # 80 \/ sg[2] # 77 \/ sg[3] # 88 \/ sg[4] # 32)

ReadSignature ==
    /\ pc = "Signature"
    /\ LET r == ReadRaw(file, pos, 4)
       IN IF ~r.ok THEN PmxThrow(r)
          ELSE IF ~SignatureOk(r.val) THEN PmxReject(r.pos)
          ELSE /\ pos' = r.pos
               /\ pc' = "Version"
               /\ UNCHANGED <<file, hdr, mdl, remaining, ret, input, sched>>

\* version != 2.f is false for the one bit pattern of 2.f
VersionOk(v) == v = FloatTwo

ReadVersion ==
    /\ pc = "Version"
    /\ LET r == ReadRaw(file, pos, 4)
       IN IF ~r.ok THEN PmxThrow(r)
          ELSE IF ~VersionOk(r.val) THEN PmxReject(r.pos)
          ELSE /\ pos' = r.pos
               /\ hdr' = [version |-> r.val]
               /\ pc' = "Header"
               /\ UNCHANGED <<file, mdl, remaining, ret, input, sched>>

\* std::make_shared<ModelData>() with mdlData->version = version
NewModel(version) ==
    [version |-> version, characterName |-> <<>>, comment |-> <<>>, vertices |-> <<>>, faces |-> <<>>,
     textures |-> <<>>, materials |-> <<>>, bones |-> <<>>, morphs |-> <<>>]

\* appendixUvCount is a char: signed or unsigned, as the build has it
ReadHeader ==
    /\ pc = "Header"
    /\ LET r == ReadFields(file, pos, <<UInt8, UInt8, UInt8, UInt8, UInt8, UInt8, UInt8, UInt8, UInt8>>, <<>>)
       IN IF ~r.ok THEN PmxThrow(r)
          ELSE \E appendixUvCount \in {r.val[3], S8(r.val[3])} :
               /\ pos' = r.pos
               /\ hdr' = [version |-> hdr.version, textEncoding |-> r.val[2],
                          appendixUvCount |-> appendixUvCount, vertexIndexSize |-> r.val[4],
                          textureIndexSize |-> r.val[5], materialIndexSize |-> r.val[6],
                          boneIndexSize |-> r.val[7], morphIndexSize |-> r.val[8],
                          rigidBodyIndexSize |-> r.val[9]]
               /\ mdl' = NewModel(hdr.version)
               /\ pc' = "Names"
               /\ UNCHANGED <<file, remaining, ret, input, sched>>

ReadNames ==
    /\ pc = "Names"
    /\ LET e == hdr.textEncoding
           r == ReadFields(file, pos, <<Text(e), Text(e), Text(e), Text(e)>>, <<>>)
       IN IF ~r.ok THEN PmxThrow(r)
          ELSE /\ pos' = r.pos
               /\ mdl' = [mdl EXCEPT !.characterName = r.val[2], !.comment = r.val[4]]
               /\ pc' = "Vertices"
               /\ UNCHANGED <<file, hdr, remaining, ret, input, sched>>

\* a load that goes on reading after the morphs
StageAfter_mut_display_frames(stage) ==
    CASE stage = "Vertices" -> "Faces"
      [] stage = "Faces" -> "Textures"
      [] stage = "Textures" -> "Materials"
      [] stage = "Materials" -> "Bones"
      [] stage = "Bones" -> "Morphs"
      [] stage = "Morphs" -> "Textures"

\* the stage that follows a list's loop; after the morph loop the load returns mdlData
StageAfter(stage) ==
    CASE stage = "Vertices" -> "Faces"
      [] stage = "Faces" -> "Textures"
      [] stage = "Textures" -> "Materials"
      [] stage = "Materials" -> "Bones"
      [] stage = "Bones" -> "Morphs"
      [] stage = "Morphs" -> "Done"

\* leaving a loop: on to the next stage, or return mdlData
Leave(stage, m) ==
    /\ pc' = StageAfter(stage)
    /\ remaining' = -1
    /\ ret' = IF StageAfter(stage) = "Done" THEN Returned(m) ELSE ret

\* the count of a list and, for the lists that reserve, reserve(count)
BeginList(stage, reserves) ==
    /\ pc = stage
    /\ remaining = -1
    /\ LET r == ReadS32(file, pos)
       IN IF ~r.ok THEN PmxThrow(r)
          ELSE IF reserves /\ r.val < 0 THEN PmxThrow(Fail("BadAlloc", r.pos))
          ELSE /\ pos' = r.pos
               /\ IF r.val > 0
                  THEN pc' = stage /\ remaining' = r.val /\ ret' = ret
                  ELSE Leave(stage, mdl)
               /\ UNCHANGED <<file, hdr, mdl, input, sched>>

\* one pass of a list's loop: r is what the pass read, entry what it appends
LoopPass(stage, field, r, entry) ==
    /\ pc = stage
    /\ remaining > 0
    /\ IF ~r.ok THEN PmxThrow(r)
       ELSE /\ pos' = r.pos
            /\ mdl' = [mdl EXCEPT ![field] = Append(@, entry)]
            /\ IF remaining > 1
               THEN pc' = stage /\ remaining' = remaining - 1 /\ ret' = ret
               ELSE Leave(stage, mdl')
            /\ UNCHANGED <<file, hdr, input, sched>>

BeginVertices == BeginList("Vertices", TRUE)
ReadVertex ==
    LoopPass("Vertices", "vertices", ReadVertexData(file, pos, hdr), VertexOf(ReadVertexData(file, pos, hdr).val))
BeginFaces == BeginList("Faces", TRUE)
ReadFace ==
    LoopPass("Faces", "faces", ReadFaceIndex(file, pos, hdr), FaceOf(ReadFaceIndex(file, pos, hdr).val))
BeginTextures == BeginList("Textures", TRUE)
ReadTexture ==
    LoopPass("Textures", "textures", ReadTexturePath(file, pos, hdr), TextureOf(ReadTexturePath(file, pos, hdr).val))
BeginMaterials == BeginList("Materials", TRUE)
ReadMaterial ==
    LoopPass("Materials", "materials", ReadMaterialData(file, pos, hdr), MaterialOf(ReadMaterialData(file, pos, hdr).val))
BeginBones == BeginList("Bones", TRUE)
ReadBone ==
    LoopPass("Bones", "bones", ReadBoneData(file, pos, hdr), BoneOf(ReadBoneData(file, pos, hdr).val))
BeginMorphs == BeginList("Morphs", FALSE)
ReadMorph ==
    LoopPass("Morphs", "morphs", ReadMorphData(file, pos, hdr), MorphOf(ReadMorphData(file, pos, hdr).val, hdr))

NextPmx ==
    \/ ReadSignature \/ ReadVersion \/ ReadHeader \/ ReadNames
    \/ BeginVertices \/ ReadVertex \/ BeginFaces \/ ReadFace
    \/ BeginTextures \/ ReadTexture \/ BeginMaterials \/ ReadMaterial
    \/ BeginBones \/ ReadBone \/ BeginMorphs \/ ReadMorph

Spec == InitPmx /\ [][NextPmx]_vars

----------------------------------------------------------------------------
(* The index readers and the model decoder side by side *)

SpecIndexOrPmx == (InitIndex \/ InitPmx) /\ [][NextIndex \/ NextPmx]_vars

----------------------------------------------------------------------------
(* Properties of the index readers *)

\* the stored bytes of an index of `width` bytes at the start of the file,
\* read as an unsigned number (width 1, 2) ...
StoredUnsigned(width) == IF width = 1 THEN file[1] ELSE file[1] + 256 * file[2]
\* ... as a two's complement number of that width (width 1, 2) ...
StoredSigned(width) ==
    IF width = 1 THEN (IF file[1] >= 128 THEN file[1] - 256 ELSE file[1])
    ELSE (IF file[2] >= 128 THEN StoredUnsigned(2) - 65536 ELSE StoredUnsigned(2))
\* ... and the four bytes as a two's complement number
StoredSigned32 ==
    file[1] + 256 * file[2] + 65536 * file[3]
      + 16777216 * (IF file[4] >= 128 THEN file[4] - 256 ELSE file[4])

\* C5: with a width selector of 1, 2 or 4 and that many bytes stored,
\* read_index returns the stored value sign-extended, read_vertex_index
\* returns a 1- or 2-byte value zero-extended and a 4-byte value as signed,
\* and either consumes exactly as many bytes as the selector says.
C5_IndexExtension ==
    (pc \in {"read_index", "read_vertex_index"} /\ hdr.type \in {1, 2, 4} /\ Len(file) >= hdr.type)
        => /\ pos = hdr.type
           /\ ret.kind = "value"
           /\ hdr.type = 4 => ret.val = StoredSigned32
           /\ (hdr.type # 4 /\ pc = "read_index") => ret.val = StoredSigned(hdr.type)
           /\ (hdr.type # 4 /\ pc = "read_vertex_index") => ret.val = StoredUnsigned(hdr.type)

\* a stored 0xFFFF read as a vertex index is 65535
C5_Witness ==
    /\ pc = "read_vertex_index"
    /\ hdr.type = 2
    /\ Len(file) >= 2
    /\ SubSeq(file, 1, 2) = <<255, 255>>
    /\ ret = Value(65535)
    /\ pos = 2

----------------------------------------------------------------------------
(* Properties of the model decoder *)

PmxStages ==
    <<"Signature", "Version", "Header", "Names", "Vertices", "Faces", "Textures", "Materials",
      "Bones", "Morphs">>

StageRank(stage) == CHOOSE i \in 1..Len(PmxStages) : PmxStages[i] = stage

PmxEnded == pc \in {"Done", "Failed", "Absent"}

SignatureMismatch == Len(file) >= 4 /\ SubSeq(file, 1, 4) # PmxSignature

VersionMismatch ==
    Len(file) >= 8 /\ SubSeq(file, 1, 4) = PmxSignature /\ SubSeq(file, 5, 8) # FloatTwo

\* C1: once the load is past the signature (the version), it has returned
\* absent, raised nothing and made no model record if the first four bytes
\* are not "PMX " (the next four are not 2.0f); and it returns absent for
\* no other reason.
C1_AbsentOnMismatch ==
    /\ (pc # "Signature" /\ SignatureMismatch) => (pc = "Absent" /\ ret = Absent /\ mdl = NoRecord)
    /\ (pc \notin {"Signature", "Version"} /\ VersionMismatch)
         => (pc = "Absent" /\ ret = Absent /\ mdl = NoRecord)
    /\ ret = Absent => (SignatureMismatch \/ VersionMismatch)

\* a file of version 2.1 is turned away after eight bytes
C1_Witness ==
    /\ pc = "Absent"
    /\ SubSeq(file, 1, 8) = PmxSignature \o <<102, 102, 6, 64>>
    /\ ret = Absent
    /\ pos = 8

\* where the vertex section of a file starts, and where its first vertex ends
VertexSectionStart(d) == 17 + Len(Flatten([i \in 1..4 |-> EncText(d.enc, d.names[i])]))
FirstVertexEnd(d) == VertexSectionStart(d) + 4 + Len(EncVertex(d.vertices[1], d))

\* a well-formed file of which only the first input.cut bytes are there
CutShort == input.cut >= 8 /\ input.cut < Len(EncPmxBody(input))

\* C6: a file that ends early after its signature and version were accepted
\* never yields a model record, complete or partial, nor an absent result;
\* its load ends in the truncation failure.
C6_TruncationIsFatal ==
    CutShort =>
        /\ ret.kind \notin {"model", "null"}
        /\ pc # "Done"
        /\ pc = "Failed" => (ret = [kind |-> "throw", what |-> "TruncatedInput"] /\ mdl = NoRecord)

\* a file that ends inside its first vertex
C6_Witness ==
    /\ pc = "Failed"
    /\ CutShort
    /\ input.cut > VertexSectionStart(input) + 4
    /\ input.cut < FirstVertexEnd(input)
    /\ pos > VertexSectionStart(input)
    /\ ret.kind = "throw"

\* a file whose first vertex carries a weight type outside BDEF1 .. QDEF
UnknownWeightType ==
    /\ input.cut < 0
    /\ input.sig = PmxSignature /\ input.ver = FloatTwo
    /\ input.enc \in {UTF16, UTF8} /\ input.auv = 0
    /\ Len(input.vertices) >= 1
    /\ input.vertices[1].wt \notin {BDEF1, BDEF2, BDEF4, SDEF, QDEF}

\* C7: the load of such a file ends in a failure right after the weight
\* type byte: no stage after the vertices is entered, no byte after that
\* byte is consumed, no model record reaches the caller.
C7_UnknownWeightTypeIsFatal ==
    UnknownWeightType =>
        /\ ret.kind \notin {"model", "null"}
        /\ pc \in {"Signature", "Version", "Header", "Names", "Vertices", "Failed"}
        /\ pos <= VertexSectionStart(input) + 4 + 33
        /\ pc = "Failed" => /\ ret = [kind |-> "throw", what |-> "InvalidFormat"]
                            /\ mdl = NoRecord
                            /\ pos = VertexSectionStart(input) + 4 + 33

C7_Witness ==
    /\ pc = "Failed"
    /\ UnknownWeightType
    /\ input.vertices[1].wt = 5
    /\ ret.kind = "throw"
    /\ pos = VertexSectionStart(input) + 4 + 33

MorphTypes ==
    {MorphGroup, MorphVertex, MorphBone, MorphMaterial, MorphFlip, MorphImpulse} \cup (MorphUv..MorphUva4)

\* a file with a morph whose type is none of the known ones
UnknownMorphType ==
    /\ input.cut < 0
    /\ input.sig = PmxSignature /\ input.ver = FloatTwo
    /\ \E i \in 1..Len(input.morphs) : input.morphs[i].type \notin MorphTypes

\* C8: the load of a file with a morph of unknown type returns no model
\* record, it ends in the format failure.
C8_UnknownMorphTypeIsFatal ==
    UnknownMorphType =>
        /\ ret.kind # "model"
        /\ pc = "Failed" => ret = [kind |-> "throw", what |-> "InvalidFormat"]

IndexTypes == {IndexByte, IndexShort, IndexInt}

\* C9: an index read with a width selector other than 1, 2, 4 ends in the
\* format failure without consuming a byte, and no model whose header holds
\* such a selector for one of the six index domains is returned.
C9_InvalidWidthIsFatal ==
    /\ (pc \in {"read_index", "read_vertex_index"} /\ hdr.type \notin IndexTypes)
         => (ret = [kind |-> "throw", what |-> "InvalidFormat"] /\ pos = 0)
    /\ ret.kind = "model"
         => {hdr.vertexIndexSize, hdr.textureIndexSize, hdr.materialIndexSize, hdr.boneIndexSize,
             hdr.morphIndexSize, hdr.rigidBodyIndexSize} \subseteq IndexTypes

\* a file in which every discriminant has one of its known values
WellFormed ==
    /\ input.cut < 0
    /\ input.enc \in {UTF16, UTF8}
    /\ \A k \in Domains : input.sizes[k] \in IndexTypes
    /\ \A i \in 1..Len(input.vertices) : input.vertices[i].wt \in {BDEF1, BDEF2, BDEF4, SDEF, QDEF}
    /\ \A i \in 1..Len(input.morphs) : input.morphs[i].type \in MorphTypes

\* C10: a step of the load never moves the cursor back; it stays in its
\* stage, fails, returns absent (from Signature and Version only) or goes on
\* to the one next stage, from Morphs to the return of the model; nothing
\* is read after the return, which leaves the cursor of a well-formed file
\* at the end of its morph section.
C10_StagesInOrder ==
    /\ [][/\ pos' >= pos
          /\ ~PmxEnded
          /\ pc' # pc =>
                \/ pc' = "Failed"
                \/ pc' = "Absent" /\ pc \in {"Signature", "Version"}
                \/ pc' = "Done" /\ pc = "Morphs"
                \/ pc' \notin {"Done", "Failed", "Absent"} /\ StageRank(pc') = StageRank(pc) + 1]_vars
    /\ [](pc = "Done" /\ WellFormed => pos = Len(EncPmxBody(input)))

\* a returned model of a file that goes on after its morph section
C10_Witness ==
    /\ pc = "Done"
    /\ input.extra # <<>>
    /\ pos = Len(file) - Len(input.extra)
    /\ Len(ret.data.morphs) = 2

----------------------------------------------------------------------------
(* Two loads side by side.  A load owns its byte source and its locals:   *)
(* the variables file .. input hold those of the load that is running,    *)
(* sched.waiting those of the load that waits for its turn.  Each of the  *)
(* two loads is first called alone, one call after the other, then both   *)
(* are called anew and run with their steps interleaved.                  *)

\* the state in which a call of mmd::pmx::load / mmd::vmd::load starts
PmxEntry(d) ==
    [file |-> PmxFileOf(d), pos |-> 0, pc |-> "Signature", hdr |-> NoRecord, mdl |-> NoRecord,
     remaining |-> -1, ret |-> NoRet, input |-> d]
VmdEntry(d) ==
    [file |-> VmdFileOf(d), pos |-> 0, pc |-> "vmd_ident", hdr |-> NoRecord, mdl |-> NoRecord,
     remaining |-> -1, ret |-> NoRet, input |-> d]

\* model files: two well-formed ones, one of version 2.1, one cut short in its materials
PairPmx ==
    { BasePmx,
      [BasePmx EXCEPT !.enc = UTF16, !.sizes = AllSizes(IndexShort),
                      !.vertices = <<[VertexK(1) EXCEPT !.wt = SDEF], [VertexK(2) EXCEPT !.wt = BDEF4]>>],
      [BasePmx EXCEPT !.ver = <<102, 102, 6, 64>>],
      [BasePmx EXCEPT !.cut = 120] }

\* motion files whose tracks hold no two records of the same frame index:
\* a version 2 and a version 1 file, and one that is no motion file
PairVmd ==
    { VmdDescription(Pad(VmdIdentV2, IdentSize), Pad(<<65, 66>>, MdlNameLenV2),
                     <<<<0, 1, 0, 0>>, <<1, 0, 0, 0>>>>, <<>>),
      VmdDescription(Pad(VmdIdentV1, IdentSize), [i \in 1..MdlNameLenV2 |-> 96 + i],
                     <<<<0, 0, 0, 128>>>>, <<>>),
      VmdDescription(Zeros(IdentSize), Pad(<<65, 66>>, MdlNameLenV2), <<>>, <<>>) }

PairJobs == {PmxEntry(d) : d \in PairPmx} \cup {VmdEntry(d) : d \in PairVmd}

\* the byte source and the locals of the running load
Running ==
    [file |-> file, pos |-> pos, pc |-> pc, hdr |-> hdr, mdl |-> mdl, remaining |-> remaining,
     ret |-> ret, input |-> input]

Install(c) ==
    /\ file' = c.file
    /\ pos' = c.pos
    /\ pc' = c.pc
    /\ hdr' = c.hdr
    /\ mdl' = c.mdl
    /\ remaining' = c.remaining
    /\ ret' = c.ret
    /\ input' = c.input

EndedAt(stage) == stage \in {"Done", "Failed", "Absent", "vmd_done", "vmd_failed", "vmd_absent"}

\* what a call left to its caller: the result and the cursor of its byte source
Outcome(c) == [ret |-> c.ret, pos |-> c.pos]

InitPair ==
    /\ sched \in {[phase |-> "first", jobs |-> <<a, b>>, alone |-> <<NoRecord, NoRecord>>,
                    waiting |-> NoRecord, running |-> 1, mixed |-> FALSE] : a \in PairJobs, b \in PairJobs}
    /\ file = sched.jobs[1].file
    /\ pos = sched.jobs[1].pos
    /\ pc = sched.jobs[1].pc
    /\ hdr = sched.jobs[1].hdr
    /\ mdl = sched.jobs[1].mdl
    /\ remaining = sched.jobs[1].remaining
    /\ ret = sched.jobs[1].ret
    /\ input = sched.jobs[1].input

\* the call has ended and the next one starts: the second load alone, then both anew
NextCall ==
    /\ EndedAt(pc)
    /\ \/ /\ sched.phase = "first"
          /\ sched' = [sched EXCEPT !.phase = "second", !.alone[1] = Outcome(Running)]
          /\ Install(sched.jobs[2])
       \/ /\ sched.phase = "second"
          /\ sched' = [sched EXCEPT !.phase = "both", !.alone[2] = Outcome(Running),
                                    !.waiting = sched.jobs[2]]
          /\ Install(sched.jobs[1])

\* a load whose locals were kept in one place for all calls would go on with the other's loop counter
Resumed_mut_static_counter(own, other) == [own EXCEPT !.remaining = other.remaining]

\* what a load finds when it goes on: the locals of load are automatic, the
\* byte source is the caller's, the record is the call's own (make_shared)
Resumed(own, other) == own

\* the other load takes its turn
Switch ==
    /\ sched.phase = "both"
    /\ ~EndedAt(sched.waiting.pc)
    /\ sched' = [sched EXCEPT !.waiting = Running, !.running = 3 - @,
                              !.mixed = @ \/ (~EndedAt(pc) /\ pos > 0 /\ sched.waiting.pos > 0)]
    /\ Install(Resumed(sched.waiting, Running))

NextPair == NextPmx \/ NextVmd \/ NextCall \/ Switch

SpecPair == InitPair /\ [][NextPair]_vars

----------------------------------------------------------------------------
(* Properties of the decoded lists of a model *)

\* a stored index of the given width as a two's complement number
SignedOf(type, v) ==
    CASE type = IndexByte -> ((v + 128) % 256) - 128
      [] type = IndexShort -> ((v + 32768) % 65536) - 32768
      [] OTHER -> v

\* ... and with a width of one or two bytes as an unsigned number
UnsignedOf(type, v) ==
    CASE type = IndexByte -> v % 256
      [] type = IndexShort -> v % 65536
      [] OTHER -> v

\* a well-formed file whose lists the load has returned
ReturnedWellFormed ==
    /\ pc = "Done"
    /\ ret.kind = "model"
    /\ WellFormed
    /\ input.sig = PmxSignature /\ input.ver = FloatTwo
    /\ input.auv < 128

\* the number of bones a weight type refers to
ActiveBones(wt) ==
    CASE wt = BDEF1 -> 1
      [] wt \in {BDEF2, SDEF} -> 2
      [] OTHER -> 4

ExpectedWeights(s) ==
    CASE s.wt = BDEF1 -> <<Float(FloatOne), Float(FloatZero), Float(FloatZero), Float(FloatZero)>>
      [] s.wt \in {BDEF2, SDEF} -> <<Float(s.w[1]), OneMinus(s.w[1]), Float(FloatZero), Float(FloatZero)>>
      [] OTHER -> [k \in 1..4 |-> Float(s.w[k])]

\* C12: every vertex of a returned model carries, in the slots its weight
\* type uses, the stored bone indices (sign-extended from the bone index
\* width) and -1 in the others; its weights are (1,0,0,0) for BDEF1,
\* (w, 1-w, 0, 0) of the stored w for BDEF2 and SDEF, whatever w is, and
\* the four stored weights for BDEF4 and QDEF.
C12_SkinningSlots ==
    ReturnedWellFormed =>
        /\ Len(ret.data.vertices) = Len(input.vertices)
        /\ \A i \in 1..Len(input.vertices) :
              /\ ret.data.vertices[i].boneIds =
                    [k \in 1..4 |-> IF k <= ActiveBones(input.vertices[i].wt)
                                    THEN SignedOf(input.sizes.bone, input.vertices[i].idx[k]) ELSE -1]
              /\ ret.data.vertices[i].boneWeights = ExpectedWeights(input.vertices[i])

\* a BDEF2 vertex with the stored weight 2.0 and one-byte bone indices 0xFF, 0x80
C12_Witness ==
    /\ ReturnedWellFormed
    /\ input.sizes.bone = IndexByte
    /\ Len(input.vertices) = 2
    /\ input.vertices[1].wt = BDEF2
    /\ input.vertices[1].idx = <<255, 128, 127, 200>>
    /\ input.vertices[1].w[1] = FloatTwo
    /\ ret.data.vertices[1].boneIds = <<-1, -128, -1, -1>>
    /\ ret.data.vertices[1].boneWeights[2] = OneMinus(FloatTwo)
    /\ ret.data.vertices[2].boneIds = <<2, -1, -1, -1>>

\* the morph types whose elements refer to a vertex
VertexMorphTypes == {MorphVertex} \cup (MorphUv..MorphUva4)

\* C13: in a returned model every morph element's index is the stored one
\* read with the width of the index domain of the morph's type, as an
\* unsigned number of one or two bytes for the types that refer to a
\* vertex and sign-extended for the types that refer to a morph, a bone, a
\* material or a rigid body (a stored one-byte 0xFF is -1 there).
C13_MorphIndexByDomain ==
    ReturnedWellFormed =>
        /\ Len(ret.data.morphs) = Len(input.morphs)
        /\ \A i \in 1..Len(input.morphs) :
              /\ Len(ret.data.morphs[i].morphs) = Len(input.morphs[i].elems)
              /\ \A j \in 1..Len(input.morphs[i].elems) :
                    ret.data.morphs[i].morphs[j].index =
                        IF input.morphs[i].type \in VertexMorphTypes
                        THEN UnsignedOf(StoredMorphLayout(input.morphs[i].type, input).indexType,
                                        input.morphs[i].elems[j])
                        ELSE SignedOf(StoredMorphLayout(input.morphs[i].type, input).indexType,
                                      input.morphs[i].elems[j])

----------------------------------------------------------------------------
(* Properties of read_text *)

\* the stored bytes of a text taken two by two, low byte first; an odd last byte stands alone
StoredUnits(body, len) ==
    [k \in 1..((len + 1) \div 2) |-> body[2 * k - 1] + (IF 2 * k <= len THEN 256 * body[2 * k] ELSE 0)]

\* a length prefix that is not negative, with that many bytes behind it
TextStored ==
    /\ pc = "read_text"
    /\ hdr.textEncoding \in {UTF16, UTF8}
    /\ input.len >= 0
    /\ Len(input.body) >= input.len

\* C14: read_text leaves the cursor 4 + len bytes further, for UTF8 and
\* UTF16 and for odd and even len; with UTF8 it returns the len bytes,
\* with UTF16 the transcoding of the ceil(len/2) code units (or fails when
\* they are no UTF-16), with len = 0 the empty string after 4 bytes.
C14_ReadTextConsumes ==
    TextStored =>
        /\ pos = 4 + input.len
        /\ hdr.textEncoding = UTF8 => ret = Value(SubSeq(input.body, 1, input.len))
        /\ hdr.textEncoding = UTF16 =>
              /\ Len(StoredUnits(input.body, input.len)) = (input.len + 1) \div 2
              /\ (ret.kind = "value") = utf16to8(StoredUnits(input.body, input.len)).ok
              /\ ret.kind = "value" => ret.val = utf16to8(StoredUnits(input.body, input.len)).val
        /\ input.len = 0 => (ret = Value(<<>>) /\ pos = 4)

\* a UTF16 text of three bytes: two code units, "AA", and the byte after it is not consumed
C14_Witness ==
    /\ TextStored
    /\ hdr.textEncoding = UTF16
    /\ input.len = 3
    /\ input.body = <<65, 0, 65, 216>>
    /\ ret = Value(<<65, 65>>)
    /\ pos = 7

----------------------------------------------------------------------------
(* Properties of the bone section *)

\* a file that stores what its description says, read with the header it declares
DecodesAsStored ==
    /\ WellFormed
    /\ input.sig = PmxSignature /\ input.ver = FloatTwo
    /\ input.auv < 128
    /\ mdl # NoRecord

\* where the count of the bone list is stored
BoneSectionStart(d) == Len(EncPmxBody([d EXCEPT !.bones = <<>>, !.morphs = <<>>])) - 8

\* the bytes of a stored text: the length prefix and the characters
TextSize(encoding, chars) == 4 + (IF encoding = UTF16 THEN 2 * Len(chars) ELSE Len(chars))

RECURSIVE IkLinksSize(_, _)
IkLinksSize(links, w) ==
    IF links = <<>> THEN 0
    ELSE w + 1 + (IF Head(links).hasLimits = 1 THEN 24 ELSE 0) + IkLinksSize(Tail(links), w)

\* the bytes of a bone: names, position, parent, layer, flags, and after
\* them the blocks its flags call for, w being the bone index width
BoneSize(b, encoding, w) ==
    TextSize(encoding, b.nameJp) + TextSize(encoding, b.name) + 12 + w + 4 + 2
      + (IF HasFlag(b.flags, IndexedTailPosition) THEN w ELSE 12)
      + (IF HasFlag(b.flags, InheritRotation) \/ HasFlag(b.flags, InheritTranslation) THEN w + 4 ELSE 0)
      + (IF HasFlag(b.flags, FixedAxis) THEN 12 ELSE 0)
      + (IF HasFlag(b.flags, LocalCoordinate) THEN 24 ELSE 0)
      + (IF HasFlag(b.flags, ExternalParentDeform) THEN w ELSE 0)
      + (IF HasFlag(b.flags, IK) THEN w + 4 + 4 + 4 + IkLinksSize(b.links, w) ELSE 0)

RECURSIVE BonesSize(_, _, _)
BonesSize(bones, encoding, w) ==
    IF bones = <<>> THEN 0
    ELSE BoneSize(Head(bones), encoding, w) + BonesSize(Tail(bones), encoding, w)

\* the values stored in the blocks after the flags, block by block in the order of the format
StoredOptional(b) ==
    (IF HasFlag(b.flags, IndexedTailPosition) THEN <<1>> ELSE <<Pad(<<8>>, 12)>>)
      \o (IF HasFlag(b.flags, InheritRotation) \/ HasFlag(b.flags, InheritTranslation)
          THEN <<2, FloatHalf>> ELSE <<>>)
      \o (IF HasFlag(b.flags, FixedAxis) THEN <<Pad(<<5>>, 12)>> ELSE <<>>)
      \o (IF HasFlag(b.flags, LocalCoordinate) THEN <<Pad(<<6>>, 12), Pad(<<7>>, 12)>> ELSE <<>>)
      \o (IF HasFlag(b.flags, ExternalParentDeform) THEN <<3>> ELSE <<>>)
      \o (IF HasFlag(b.flags, IK)
          THEN <<4, 10, FloatOne, Len(b.links)>>
                 \o Flatten([i \in 1..Len(b.links) |->
                        <<b.links[i].boneIndex, b.links[i].hasLimits>>
                          \o (IF b.links[i].hasLimits = 1 THEN <<Zeros(12), Zeros(12)>> ELSE <<>>)])
          ELSE <<>>)

\* C15: the load is past the first k bones of the list exactly when it
\* has consumed, for each of them, the fixed fields and the blocks its
\* flags call for (tail: index or 12 bytes; inherit: index + 4 bytes, once;
\* fixed axis: 12; local coordinate: 24; external parent: index; IK block
\* with its links), and the pass over a bone reads the values of these
\* blocks in that order.
C15_BoneOptionalOrder ==
    DecodesAsStored =>
        /\ (pc = "Bones" /\ remaining > 0) =>
              /\ pos = BoneSectionStart(input) + 4
                         + BonesSize(SubSeq(input.bones, 1, Len(mdl.bones)), input.enc, input.sizes.bone)
              /\ ReadBoneData(file, pos, hdr).ok
              /\ ReadBoneData(file, pos, hdr).pos
                    = pos + BoneSize(input.bones[Len(mdl.bones) + 1], input.enc, input.sizes.bone)
              /\ SubSeq(ReadBoneData(file, pos, hdr).val, 7, Len(ReadBoneData(file, pos, hdr).val))
                    = StoredOptional(input.bones[Len(mdl.bones) + 1])
        /\ (pc = "Morphs" /\ remaining = -1) =>
              pos = BoneSectionStart(input) + 4 + BonesSize(input.bones, input.enc, input.sizes.bone)

\* the load is past a first bone with all seven flags and two IK links, one of them with limits
C15_Witness ==
    /\ DecodesAsStored
    /\ pc = "Bones"
    /\ remaining = 1
    /\ Len(mdl.bones) = 1
    /\ mdl.bones[1].flags = 12065
    /\ Len(input.bones[1].links) = 2
    /\ input.sizes.bone = IndexShort
    /\ pos = BoneSectionStart(input) + 4 + 122

----------------------------------------------------------------------------
(* Properties of the names *)

\* C16: a returned model holds the second text of the character name
\* pair and of the comment pair, every material holds the second text of
\* its name pair, none of them the first, and every bone holds both texts
\* of its pair, the first as nameJp and the second as name.
C16_SecondNamesKept ==
    ReturnedWellFormed =>
        /\ ret.data.characterName = input.names[2] /\ ret.data.characterName # input.names[1]
        /\ ret.data.comment = input.names[4] /\ ret.data.comment # input.names[3]
        /\ Len(ret.data.materials) = Len(input.materials)
        /\ \A i \in 1..Len(input.materials) :
              /\ ret.data.materials[i].name = input.materials[i].name
              /\ ret.data.materials[i].name # input.materials[i].nameLocal
        /\ Len(ret.data.bones) = Len(input.bones)
        /\ \A i \in 1..Len(input.bones) :
              /\ ret.data.bones[i].nameJp = input.bones[i].nameJp
              /\ ret.data.bones[i].name = input.bones[i].name

\* a returned model of a UTF16 file with two materials: "CN", "DC", "M2", and the bone "b1" / "B1"
C16_Witness ==
    /\ ReturnedWellFormed
    /\ input.enc = UTF16
    /\ input.names = <<<<99>>, <<67, 78>>, <<100>>, <<68, 67>>>>
    /\ ret.data.characterName = <<67, 78>>
    /\ ret.data.comment = <<68, 67>>
    /\ Len(ret.data.materials) = 2
    /\ input.materials[2].nameLocal = <<109, 50>>
    /\ ret.data.materials[2].name = <<77, 50>>
    /\ ret.data.bones[1].nameJp = <<98, 49>>
    /\ ret.data.bones[1].name = <<66, 49>>

----------------------------------------------------------------------------
(* Properties of the face list *)

\* C17: every entry of a returned model's face list is the 32-bit value
\* the vertex-index reader decoded for it (a one- or two-byte index
\* zero-extended, a four-byte index as stored): 70000 stays 70000 and a
\* stored -1 stays -1.
C17_FacesKeepIndex ==
    ReturnedWellFormed =>
        /\ Len(ret.data.faces) = Len(input.faces)
        /\ \A i \in 1..Len(input.faces) :
              ret.data.faces[i] = UnsignedOf(input.sizes.vertex, input.faces[i])

====
